---- MODULE Spec2Model ----
(***************************************************************************)
(* Session registry and request routing of CombinedMCPServer               *)
(* (src/src/combined-server.ts).                                           *)
(*                                                                         *)
(* The server is a single-threaded event loop: every action below is one   *)
(* synchronous run of a handler, from its entry (or from the await it was  *)
(* suspended at) to its next await or return.  The four registries are     *)
(* plain JavaScript objects ({}), so a property read obj[key] that finds   *)
(* no own property continues in Object.prototype; that object is shared by *)
(* all of them and is part of the state.                                   *)
(***************************************************************************)
EXTENDS Integers, Sequences, FiniteSets, TLC

VARIABLES
    mcpTransports,    \* this.mcpTransports : apiKey -> (sessionId -> transport)
    mcpServers,       \* this.mcpServers    : apiKey -> (key -> server)
    sseTransports,    \* this.sseTransports : apiKey -> (sessionId -> transport)
    sseServers,       \* this.sseServers    : apiKey -> server
    objectPrototype,  \* properties the program has stored on Object.prototype
    transports,       \* every transport object constructed so far
    servers,          \* every AnyCrawlMCPServer constructed so far
    awaiting,         \* handleMcpPost calls suspended at `await server.connectTransport`
    last              \* what the handler or callback that just ran did; Idle between runs

vars == <<mcpTransports, mcpServers, sseTransports, sseServers, objectPrototype,
          transports, servers, awaiting, last>>

registry == <<mcpTransports, mcpServers, sseTransports, sseServers, objectPrototype>>

-----------------------------------------------------------------------------
(* Bounds and inputs *)

\* transports constructed in one run of the model
MaxTransports == 2

\* ordinary tenant keys (req.params.apiKey)
Tenants == {"a", "b"}

\* the path segment "__proto__": obj["__proto__"] reads Object.prototype itself
PROTO == "__proto__"

\* "" stands for a missing key
ApiKeys == Tenants \cup {PROTO, ""}

\* the n-th value returned by randomUUID()
randomUUID(n) == "uuid-" \o ToString(n)

\* the placeholder key of line 112
PENDING == "pending"

\* a property every object inherits from Object.prototype
CONSTRUCTOR == "constructor"

\* session identifiers a caller may send; "" stands for none
SessionIds == {"", PENDING, CONSTRUCTOR} \cup {randomUUID(n) : n \in 1..MaxTransports}

\* the two routes bound to handleMcpSession (lines 57-58)
Methods == {"GET /:apiKey/mcp", "DELETE /:apiKey/mcp"}

-----------------------------------------------------------------------------
(* JavaScript values and property access *)

Undefined == [class |-> "undefined", id |-> 0]

\* the built-in function found under Object.prototype.constructor
Builtin == [class |-> "Function", id |-> 0]

STREAMABLE == "StreamableHTTPServerTransport"
SSE == "SSEServerTransport"
SERVER == "AnyCrawlMCPServer"

Ref(class, id) == [class |-> class, id |-> id]

EmptyObject == [k \in {} |-> Undefined]

\* obj[key] = value on an object's own properties
Assign(obj, key, value) ==
    [k \in DOMAIN obj \cup {key} |-> IF k = key THEN value ELSE obj[k]]

\* delete obj[key]
Delete(obj, key) == [k \in DOMAIN obj \ {key} |-> obj[k]]

\* Object.prototype[key]
ProtoGet(proto, key) ==
    IF key \in DOMAIN proto THEN proto[key]
    ELSE IF key = CONSTRUCTOR THEN Builtin
    ELSE Undefined

\* truthiness of outer[apiKey] for a two-level registry (or of sseServers[apiKey]):
\* an own sub-map, or Object.prototype when apiKey is "__proto__"
Has(outer, apiKey) == apiKey \in DOMAIN outer \/ apiKey = PROTO

\* outer[apiKey][key], for an apiKey with Has(outer, apiKey)
Get(outer, proto, apiKey, key) ==
    IF apiKey \in DOMAIN outer /\ key \in DOMAIN outer[apiKey]
    THEN outer[apiKey][key]
    ELSE ProtoGet(proto, key)

\* outer[apiKey] = {}
Create(outer, apiKey) == Assign(outer, apiKey, EmptyObject)

\* outer[apiKey][key] = value: the new outer map ...
Put(outer, apiKey, key, value) ==
    IF apiKey \in DOMAIN outer
    THEN [outer EXCEPT ![apiKey] = Assign(@, key, value)]
    ELSE outer

\* ... and the new Object.prototype (written when outer[apiKey] is Object.prototype)
PutProto(outer, proto, apiKey, key, value) ==
    IF apiKey \notin DOMAIN outer /\ apiKey = PROTO
    THEN Assign(proto, key, value)
    ELSE proto

\* delete outer[apiKey][key]: the new outer map ...
Drop(outer, apiKey, key) ==
    IF apiKey \in DOMAIN outer
    THEN [outer EXCEPT ![apiKey] = Delete(@, key)]
    ELSE outer

\* ... and the new Object.prototype
DropProto(outer, proto, apiKey, key) ==
    IF apiKey \notin DOMAIN outer /\ apiKey = PROTO
    THEN Delete(proto, key)
    ELSE proto

-----------------------------------------------------------------------------
(* Replies and the record of the last step *)

NoReply == [status |-> 0, format |-> "", message |-> ""]

JsonError(message) == [status |-> 400, format |-> "jsonrpc-error", message |-> message]

TextError(message) == [status |-> 400, format |-> "text", message |-> message]

Step(op, apiKey, sessionId, isInit, outcome, reply, transport) ==
    [op |-> op, apiKey |-> apiKey, sessionId |-> sessionId, isInit |-> isInit,
     outcome |-> outcome, reply |-> reply, transport |-> transport]

\* no handler is running and the previous run has been observed
Idle == Step("", "", "", FALSE, "idle", NoReply, 0)

\* transport.handleRequest / handlePostMessage on the value a lookup returned:
\* a method call on anything but a transport of the expected class throws
Dispatch(op, apiKey, sessionId, isInit, value, class) ==
    IF value.class = class
    THEN Step(op, apiKey, sessionId, isInit, "forwarded", NoReply, value.id)
    ELSE Step(op, apiKey, sessionId, isInit, "TypeError", NoReply, 0)

-----------------------------------------------------------------------------
Init ==
    /\ mcpTransports = EmptyObject
    /\ mcpServers = EmptyObject
    /\ sseTransports = EmptyObject
    /\ sseServers = EmptyObject
    /\ objectPrototype = EmptyObject
    /\ transports = <<>>
    /\ servers = <<>>
    /\ awaiting = {}
    /\ last = Idle

-----------------------------------------------------------------------------
(* Collaborators: the transports of the SDK and AnyCrawlMCPServer *)

\* a transport at construction.  closed: its close signal has fired; reaped:
\* a close callback has run with the session identifier known; server: the
\* handler connected to it
NewTransport(class, apiKey, sessionId) ==
    [class |-> class, apiKey |-> apiKey, sessionId |-> sessionId,
     closed |-> FALSE, reaped |-> FALSE, server |-> 0]

\* server.connectTransport(transport): the handler becomes the transport's
\* message sink, and the transport the handler's current transport
ConnectServer(srvs, s, t) == [srvs EXCEPT ![s].transport = t]

ConnectTransport(trs, s, t) == [trs EXCEPT ![t].server = s]

\* newTransport.sessionId ?? 'pending'
SessionKey(sessionId) == IF sessionId = "" THEN PENDING ELSE sessionId

\* session identifiers issued so far (each transport draws one randomUUID())
Issued == Cardinality({t \in 1..Len(transports) : transports[t].sessionId # ""})

-----------------------------------------------------------------------------
(* POST /:apiKey/mcp *)

\* lines 76-78
McpLookup(apiKey, sessionId) ==
    IF sessionId # "" /\ Has(mcpTransports, apiKey)
    THEN Get(mcpTransports, objectPrototype, apiKey, sessionId)
    ELSE Undefined

\* lines 67-74
McpPostNoKey(apiKey, sessionId, isInit) ==
    /\ apiKey = ""
    /\ last' = Step("POST /:apiKey/mcp", apiKey, sessionId, isInit, "rejected",
                    JsonError("Bad Request: API key is required"), 0)
    /\ UNCHANGED <<registry, transports, servers, awaiting>>

\* McpPostForward with a suspension point between the lookup of line 78 and
\* the call of line 82: the run ends before the request is handed over
McpPostForward_Suspends(apiKey, sessionId, isInit) ==
    /\ apiKey # ""
    /\ sessionId # "" /\ McpLookup(apiKey, sessionId) # Undefined
    /\ last' = Step("POST /:apiKey/mcp", apiKey, sessionId, isInit, "suspended",
                    NoReply, McpLookup(apiKey, sessionId).id)
    /\ UNCHANGED <<registry, transports, servers, awaiting>>

\* lines 80-83
McpPostForward(apiKey, sessionId, isInit) ==
    /\ apiKey # ""
    /\ sessionId # "" /\ McpLookup(apiKey, sessionId) # Undefined
    /\ last' = Dispatch("POST /:apiKey/mcp", apiKey, sessionId, isInit,
                        McpLookup(apiKey, sessionId), STREAMABLE)
    /\ UNCHANGED <<registry, transports, servers, awaiting>>

\* lines 85-114, up to the first await
McpPostAdmit(apiKey, sessionId, isInit) ==
    LET t == Len(transports) + 1
        s == Len(servers) + 1
        newTransport == NewTransport(STREAMABLE, apiKey, "")
        created == IF Has(mcpServers, apiKey) THEN mcpServers
                   ELSE Create(mcpServers, apiKey)
        key == SessionKey(newTransport.sessionId)
    IN  /\ apiKey # ""
        /\ ~(sessionId # "" /\ McpLookup(apiKey, sessionId) # Undefined)
        /\ sessionId = "" /\ isInit
        /\ t <= MaxTransports
        /\ mcpServers' = Put(created, apiKey, key, Ref(SERVER, s))
        /\ objectPrototype' =
               PutProto(created, objectPrototype, apiKey, key, Ref(SERVER, s))
        /\ transports' = ConnectTransport(Append(transports, newTransport), s, t)
        /\ servers' = ConnectServer(
               Append(servers, [apiKey |-> apiKey, transport |-> 0]), s, t)
        /\ awaiting' = awaiting \cup {t}
        /\ last' = Step("POST /:apiKey/mcp", apiKey, sessionId, isInit, "admitted",
                        NoReply, t)
        /\ UNCHANGED <<mcpTransports, sseTransports, sseServers>>

\* McpPostReject with lines 109-111 run before the admissibility test
McpPostReject_CreatesSubmap(apiKey, sessionId, isInit) ==
    /\ apiKey # ""
    /\ ~(sessionId # "" /\ McpLookup(apiKey, sessionId) # Undefined)
    /\ ~(sessionId = "" /\ isInit)
    /\ mcpServers' = IF Has(mcpServers, apiKey) THEN mcpServers
                     ELSE Create(mcpServers, apiKey)
    /\ last' = Step("POST /:apiKey/mcp", apiKey, sessionId, isInit, "rejected",
                    JsonError("Bad Request: No valid session ID provided"), 0)
    /\ UNCHANGED <<mcpTransports, sseTransports, sseServers, objectPrototype,
                   transports, servers, awaiting>>

\* lines 119-123
McpPostReject(apiKey, sessionId, isInit) ==
    /\ apiKey # ""
    /\ ~(sessionId # "" /\ McpLookup(apiKey, sessionId) # Undefined)
    /\ ~(sessionId = "" /\ isInit)
    /\ last' = Step("POST /:apiKey/mcp", apiKey, sessionId, isInit, "rejected",
                    JsonError("Bad Request: No valid session ID provided"), 0)
    /\ UNCHANGED <<registry, transports, servers, awaiting>>

handleMcpPost(apiKey, sessionId, isInit) ==
    \/ McpPostNoKey(apiKey, sessionId, isInit)
    \/ McpPostForward(apiKey, sessionId, isInit)
    \/ McpPostAdmit(apiKey, sessionId, isInit)
    \/ McpPostReject(apiKey, sessionId, isInit)

\* onsessioninitialized resetting the tenant's transport sub-map the way line
\* 93 resets the handler sub-map, whether or not the sub-map exists
onsessioninitialized_ResetsSubmap(t, sid) ==
    LET apiKey == transports[t].apiKey
        trs == Create(mcpTransports, apiKey)
    IN  /\ mcpTransports' = Put(trs, apiKey, sid, Ref(STREAMABLE, t))
        /\ mcpServers' = Create(mcpServers, apiKey)
        /\ objectPrototype' = objectPrototype

\* onsessioninitialized storing the transport under the placeholder key of
\* line 112 instead of the identifier it is given
onsessioninitialized_WrongKey(t, sid) ==
    LET apiKey == transports[t].apiKey
        fresh == ~Has(mcpTransports, apiKey)
        trs == IF fresh THEN Create(mcpTransports, apiKey) ELSE mcpTransports
    IN  /\ mcpTransports' = Put(trs, apiKey, SessionKey(""), Ref(STREAMABLE, t))
        /\ mcpServers' = IF fresh THEN Create(mcpServers, apiKey) ELSE mcpServers
        /\ objectPrototype' = PutProto(trs, objectPrototype, apiKey,
                                       SessionKey(""), Ref(STREAMABLE, t))

\* lines 90-96, run by the transport while it handles the initialize request
onsessioninitialized(t, sid) ==
    LET apiKey == transports[t].apiKey
        fresh == ~Has(mcpTransports, apiKey)
        trs == IF fresh THEN Create(mcpTransports, apiKey) ELSE mcpTransports
    IN  /\ mcpTransports' = Put(trs, apiKey, sid, Ref(STREAMABLE, t))
        /\ mcpServers' = IF fresh THEN Create(mcpServers, apiKey) ELSE mcpServers
        /\ objectPrototype' =
               PutProto(trs, objectPrototype, apiKey, sid, Ref(STREAMABLE, t))

\* line 115, after the await of line 114: the initialize request reaches the
\* new transport, which draws its session identifier and reports it
McpPostResume(t) ==
    LET sid == randomUUID(Issued + 1)
    IN  /\ t \in awaiting
        /\ awaiting' = awaiting \ {t}
        /\ transports' = [transports EXCEPT ![t].sessionId = sid]
        /\ onsessioninitialized(t, sid)
        /\ last' = Step("POST /:apiKey/mcp resumed", transports[t].apiKey, "", TRUE,
                        "forwarded", NoReply, t)
        /\ UNCHANGED <<sseTransports, sseServers, servers>>

\* onclose without line 102: only the handler entry is deleted
onclose_KeepsTransport(t) ==
    LET apiKey == transports[t].apiKey
        sid == transports[t].sessionId
    IN  /\ mcpServers' =
               IF sid # "" /\ Has(mcpTransports, apiKey) /\ Has(mcpServers, apiKey)
               THEN Drop(mcpServers, apiKey, sid)
               ELSE mcpServers
        /\ UNCHANGED <<mcpTransports, objectPrototype>>

\* onclose that also deletes the placeholder entry of line 113
onclose_DropsPlaceholder(t) ==
    LET apiKey == transports[t].apiKey
        sid == transports[t].sessionId
    IN  IF sid # "" /\ Has(mcpTransports, apiKey)
        THEN /\ mcpTransports' = Drop(mcpTransports, apiKey, sid)
             /\ mcpServers' = Drop(Drop(mcpServers, apiKey, sid), apiKey, PENDING)
             /\ objectPrototype' =
                    DropProto(mcpTransports,
                              DropProto(mcpTransports, objectPrototype, apiKey, sid),
                              apiKey, PENDING)
        ELSE UNCHANGED <<mcpTransports, mcpServers, objectPrototype>>

\* lines 100-107
onclose(t) ==
    LET apiKey == transports[t].apiKey
        sid == transports[t].sessionId
    IN  IF sid # "" /\ Has(mcpTransports, apiKey)
        THEN LET proto1 == DropProto(mcpTransports, objectPrototype, apiKey, sid)
             IN  /\ mcpTransports' = Drop(mcpTransports, apiKey, sid)
                 /\ IF Has(mcpServers, apiKey)
                    THEN /\ mcpServers' = Drop(mcpServers, apiKey, sid)
                         /\ objectPrototype' =
                                DropProto(mcpServers, proto1, apiKey, sid)
                    ELSE /\ mcpServers' = mcpServers
                         /\ objectPrototype' = proto1
        ELSE UNCHANGED <<mcpTransports, mcpServers, objectPrototype>>

\* the close signal of a streamable transport
McpClose(t) ==
    /\ t \in 1..Len(transports)
    /\ transports[t].class = STREAMABLE
    /\ onclose(t)
    /\ transports' = [transports EXCEPT ![t].closed = TRUE,
                                        ![t].reaped = @ \/ transports[t].sessionId # ""]
    /\ last' = Step("onclose", transports[t].apiKey, transports[t].sessionId,
                    FALSE, IF transports[t].reaped THEN "closed again" ELSE "closed",
                    NoReply, t)
    /\ UNCHANGED <<sseTransports, sseServers, servers, awaiting>>

-----------------------------------------------------------------------------
(* GET and DELETE /:apiKey/mcp *)

\* lines 128-131
McpSessionNoKey(method, apiKey, sessionId) ==
    /\ apiKey = ""
    /\ last' = Step(method, apiKey, sessionId, FALSE, "rejected",
                    TextError("API key is required"), 0)
    /\ UNCHANGED <<registry, transports, servers, awaiting>>

\* line 134
McpSessionMissing(apiKey, sessionId) ==
    \/ sessionId = ""
    \/ ~Has(mcpTransports, apiKey)
    \/ Get(mcpTransports, objectPrototype, apiKey, sessionId) = Undefined

\* McpSessionReject creating the tenant's sub-map before it rejects
McpSessionReject_CreatesSubmap(method, apiKey, sessionId) ==
    /\ apiKey # ""
    /\ McpSessionMissing(apiKey, sessionId)
    /\ mcpTransports' = IF Has(mcpTransports, apiKey) THEN mcpTransports
                        ELSE Create(mcpTransports, apiKey)
    /\ last' = Step(method, apiKey, sessionId, FALSE, "rejected",
                    TextError("Invalid or missing session ID"), 0)
    /\ UNCHANGED <<mcpServers, sseTransports, sseServers, objectPrototype,
                   transports, servers, awaiting>>

\* lines 134-137
McpSessionReject(method, apiKey, sessionId) ==
    /\ apiKey # ""
    /\ McpSessionMissing(apiKey, sessionId)
    /\ last' = Step(method, apiKey, sessionId, FALSE, "rejected",
                    TextError("Invalid or missing session ID"), 0)
    /\ UNCHANGED <<registry, transports, servers, awaiting>>

\* lines 139-140
McpSessionForward(method, apiKey, sessionId) ==
    /\ apiKey # ""
    /\ ~McpSessionMissing(apiKey, sessionId)
    /\ last' = Dispatch(method, apiKey, sessionId, FALSE,
                        Get(mcpTransports, objectPrototype, apiKey, sessionId),
                        STREAMABLE)
    /\ UNCHANGED <<registry, transports, servers, awaiting>>

handleMcpSession(method, apiKey, sessionId) ==
    \/ McpSessionNoKey(method, apiKey, sessionId)
    \/ McpSessionReject(method, apiKey, sessionId)
    \/ McpSessionForward(method, apiKey, sessionId)

-----------------------------------------------------------------------------
(* GET /:apiKey/sse *)

\* lines 145-148
SseGetNoKey(apiKey) ==
    /\ apiKey = ""
    /\ last' = Step("GET /:apiKey/sse", apiKey, "", FALSE, "rejected",
                    TextError("API key is required"), 0)
    /\ UNCHANGED <<registry, transports, servers, awaiting>>

\* lines 150-169 for a tenant whose sseServers entry is (or becomes) a server
SseGetOpen(apiKey) ==
    LET t == Len(transports) + 1
        sid == randomUUID(Issued + 1)
        fresh == ~Has(sseServers, apiKey)
        s == IF fresh THEN Len(servers) + 1 ELSE sseServers[apiKey].id
        srvs == IF fresh
                THEN Append(servers, [apiKey |-> apiKey, transport |-> 0])
                ELSE servers
        trs == IF Has(sseTransports, apiKey) THEN sseTransports
               ELSE Create(sseTransports, apiKey)
    IN  /\ apiKey # "" /\ apiKey # PROTO
        /\ t <= MaxTransports
        /\ sseServers' = IF fresh THEN Assign(sseServers, apiKey, Ref(SERVER, s))
                         ELSE sseServers
        /\ sseTransports' = Put(trs, apiKey, sid, Ref(SSE, t))
        /\ transports' = ConnectTransport(
               Append(transports, NewTransport(SSE, apiKey, sid)), s, t)
        /\ servers' = ConnectServer(srvs, s, t)
        /\ last' = Step("GET /:apiKey/sse", apiKey, "", FALSE, "opened", NoReply, t)
        /\ UNCHANGED <<mcpTransports, mcpServers, objectPrototype, awaiting>>

\* lines 150-169 when sseServers[apiKey] and sseTransports[apiKey] read
\* Object.prototype: the transport is stored there, and line 169 calls a
\* method Object.prototype does not have
SseGetProto(apiKey) ==
    LET t == Len(transports) + 1
        sid == randomUUID(Issued + 1)
    IN  /\ apiKey = PROTO
        /\ t <= MaxTransports
        /\ objectPrototype' =
               PutProto(sseTransports, objectPrototype, apiKey, sid, Ref(SSE, t))
        /\ transports' = Append(transports, NewTransport(SSE, apiKey, sid))
        /\ last' = Step("GET /:apiKey/sse", apiKey, "", FALSE, "TypeError", NoReply, t)
        /\ UNCHANGED <<mcpTransports, mcpServers, sseTransports, sseServers,
                       servers, awaiting>>

handleSseGet(apiKey) ==
    \/ SseGetNoKey(apiKey)
    \/ SseGetOpen(apiKey)
    \/ SseGetProto(apiKey)

\* lines 163-167: the 'close' listener of the stream's response
SseClose(t) ==
    LET apiKey == transports[t].apiKey
        sid == transports[t].sessionId
    IN  /\ t \in 1..Len(transports)
        /\ transports[t].class = SSE
        /\ IF Has(sseTransports, apiKey)
           THEN /\ sseTransports' = Drop(sseTransports, apiKey, sid)
                /\ objectPrototype' =
                       DropProto(sseTransports, objectPrototype, apiKey, sid)
           ELSE UNCHANGED <<sseTransports, objectPrototype>>
        /\ transports' = [transports EXCEPT ![t].closed = TRUE, ![t].reaped = TRUE]
        /\ last' = Step("res.on close", apiKey, sid, FALSE,
                        IF transports[t].reaped THEN "closed again" ELSE "closed",
                        NoReply, t)
        /\ UNCHANGED <<mcpTransports, mcpServers, sseServers, servers, awaiting>>

-----------------------------------------------------------------------------
(* POST /:apiKey/messages *)

\* line 180
SseLookup(apiKey, sessionId) ==
    IF Has(sseTransports, apiKey)
    THEN Get(sseTransports, objectPrototype, apiKey, sessionId)
    ELSE Undefined

\* lines 174-177
SseMessagesNoKey(apiKey, sessionId) ==
    /\ apiKey = ""
    /\ last' = Step("POST /:apiKey/messages", apiKey, sessionId, FALSE, "rejected",
                    TextError("API key is required"), 0)
    /\ UNCHANGED <<registry, transports, servers, awaiting>>

\* lines 181-182
SseMessagesForward(apiKey, sessionId) ==
    /\ apiKey # ""
    /\ SseLookup(apiKey, sessionId) # Undefined
    /\ last' = Dispatch("POST /:apiKey/messages", apiKey, sessionId, FALSE,
                        SseLookup(apiKey, sessionId), SSE)
    /\ UNCHANGED <<registry, transports, servers, awaiting>>

\* lines 183-185
SseMessagesReject(apiKey, sessionId) ==
    /\ apiKey # ""
    /\ SseLookup(apiKey, sessionId) = Undefined
    /\ last' = Step("POST /:apiKey/messages", apiKey, sessionId, FALSE, "rejected",
                    TextError("No transport found for sessionId"), 0)
    /\ UNCHANGED <<registry, transports, servers, awaiting>>

handleSseMessages(apiKey, sessionId) ==
    \/ SseMessagesNoKey(apiKey, sessionId)
    \/ SseMessagesForward(apiKey, sessionId)
    \/ SseMessagesReject(apiKey, sessionId)

-----------------------------------------------------------------------------
\* the run returns to the event loop, which then takes the next event: every
\* other action starts from Idle
Settle ==
    /\ last # Idle
    /\ last' = Idle
    /\ UNCHANGED <<registry, transports, servers, awaiting>>

\* one run of a handler or callback, picked up by the idle event loop
Next ==
    \/ /\ last = Idle
       /\ \E apiKey \in ApiKeys, sessionId \in SessionIds, isInit \in BOOLEAN :
              handleMcpPost(apiKey, sessionId, isInit)
    \/ /\ last = Idle
       /\ \E t \in awaiting : McpPostResume(t)
    \/ /\ last = Idle
       /\ \E method \in Methods, apiKey \in ApiKeys, sessionId \in SessionIds :
              handleMcpSession(method, apiKey, sessionId)
    \/ /\ last = Idle
       /\ \E apiKey \in ApiKeys : handleSseGet(apiKey)
    \/ /\ last = Idle
       /\ \E apiKey \in ApiKeys, sessionId \in SessionIds :
              handleSseMessages(apiKey, sessionId)
    \/ /\ last = Idle
       /\ \E t \in 1..Len(transports) : McpClose(t)
    \/ /\ last = Idle
       /\ \E t \in 1..Len(transports) : SseClose(t)
    \/ Settle

Spec == Init /\ [][Next]_vars

-----------------------------------------------------------------------------
(* Vocabulary of the properties *)

POST_MCP == "POST /:apiKey/mcp"
GET_MCP == "GET /:apiKey/mcp"
DELETE_MCP == "DELETE /:apiKey/mcp"
GET_SSE == "GET /:apiKey/sse"
POST_MESSAGES == "POST /:apiKey/messages"

\* the requests that name a session
SessionRequests == {POST_MCP, GET_MCP, DELETE_MCP, POST_MESSAGES}

\* the endpoints that only reference an existing session
SessionOnly == {GET_MCP, DELETE_MCP, POST_MESSAGES}

\* the transport kind an endpoint serves
KindOf(op) == IF op = POST_MESSAGES THEN SSE ELSE STREAMABLE

NoSessionMessages ==
    {"Bad Request: No valid session ID provided", "Invalid or missing session ID",
     "No transport found for sessionId"}

Transports == 1..Len(transports)

\* the own property outer[apiKey][key] as the program stored it (Undefined if none)
Stored(outer, proto, apiKey, key) ==
    IF apiKey \in DOMAIN outer
    THEN IF key \in DOMAIN outer[apiKey] THEN outer[apiKey][key] ELSE Undefined
    ELSE IF apiKey = PROTO /\ key \in DOMAIN proto THEN proto[key] ELSE Undefined

\* the entry the program stored for transport t is in place
Registered(t) ==
    LET tr == transports[t]
        outer == IF tr.class = STREAMABLE THEN mcpTransports ELSE sseTransports
    IN  /\ tr.sessionId # ""
        /\ Stored(outer, objectPrototype, tr.apiKey, tr.sessionId) = Ref(tr.class, t)

\* the handler created for streamable transport t is in the handler registry
HandlerRegistered(t) ==
    \E key \in SessionIds \ {""} :
        Stored(mcpServers, objectPrototype, transports[t].apiKey, key)
            = Ref(SERVER, transports[t].server)

\* t has its session identifier and its close signal has not fired
Live(t) == transports[t].sessionId # "" /\ ~transports[t].closed

\* the transports of the session (apiKey, sessionId) of a kind
SessionOf(class, apiKey, sessionId) ==
    {t \in Transports : /\ transports[t].class = class
                        /\ transports[t].apiKey = apiKey
                        /\ transports[t].sessionId = sessionId}

\* a handler or callback has just run (every run starts from Idle)
Ran == last' # Idle

\* the transport that the handler or callback that just ran worked on
Target == last'.transport

\* the session a request that has just been handled named
Named == SessionOf(KindOf(last'.op), last'.apiKey, last'.sessionId)

\* a request that names a session has just been handled
RanSessionRequest ==
    /\ Ran
    /\ last'.op \in SessionRequests
    /\ last'.apiKey # ""
    /\ last'.sessionId # ""

-----------------------------------------------------------------------------
(* C1: a request whose session identifier is not registered for its tenant   *)
(* and transport kind is answered with the no-valid-session rejection and    *)
(* creates nothing, whatever its body and whatever other sessions exist.     *)
(* Stated for the ordinary tenant keys.                                      *)
C1_UnknownSessionIsRejected ==
    [][(/\ RanSessionRequest
        /\ last'.apiKey \in Tenants
        /\ \A t \in SessionOf(KindOf(last'.op), last'.apiKey, last'.sessionId) :
               ~Registered(t))
       => /\ last'.outcome = "rejected"
          /\ last'.reply.message \in NoSessionMessages
          /\ transports' = transports
          /\ registry' = registry]_vars

(* C2: a POST with no session identifier and an initialize body ends with    *)
(* one new registry entry, the new transport and its handler both registered *)
(* under the new session identifier, and with that request forwarded to the  *)
(* new transport.                                                            *)
C2_AdmissionRegistersTransportAndHandler ==
    [][(Ran /\ last'.op = "POST /:apiKey/mcp resumed")
       => LET apiKey == transports'[Target].apiKey
              sid == transports'[Target].sessionId
          IN  /\ last'.outcome = "forwarded"
              /\ last'.isInit /\ last'.sessionId = ""
              /\ sid # ""
              /\ Stored(mcpTransports', objectPrototype', apiKey, sid)
                     = Ref(STREAMABLE, Target)
              /\ Stored(mcpServers', objectPrototype', apiKey, sid)
                     = Ref(SERVER, transports'[Target].server)]_vars

(* C3: of two admissions for one tenant that interleave at their awaits,     *)
(* neither overwrites or discards what the other registered: an admission    *)
(* suspended at its await still finds the handler it registered.             *)
C3_InterleavedAdmissionsKeepTheirEntries ==
    \A t \in awaiting : HandlerRegistered(t)

(* C4: once the close callback of a registered session has run, a later      *)
(* request naming that (tenant, session identifier, kind) is rejected.       *)
C4_ClosedSessionIsAbsent ==
    [][(RanSessionRequest /\ \E t \in Named : transports[t].reaped)
       => /\ last'.outcome = "rejected"
          /\ last'.reply.message \in NoSessionMessages]_vars

C4_Witness ==
    /\ last.op = GET_MCP
    /\ last.outcome = "rejected"
    /\ \E t \in SessionOf(STREAMABLE, last.apiKey, last.sessionId) :
           transports[t].reaped

(* C5: a close callback that runs again, or runs when its entry is absent,   *)
(* raises no error and leaves the whole registry as it was.                  *)
C5_CloseIsIdempotent ==
    [][(/\ Ran
        /\ last'.op \in {"onclose", "res.on close"}
        /\ (transports[Target].reaped \/ ~Registered(Target)))
       => /\ registry' = registry
          /\ last'.outcome \in {"closed", "closed again"}]_vars

C5_Witness ==
    /\ last.op = "onclose"
    /\ last.outcome = "closed again"
    /\ \E t \in awaiting : transports[t].apiKey = last.apiKey

(* C6: a request that names a live session of its tenant and kind is         *)
(* dispatched to the transport created for that session, also while another  *)
(* session of the same tenant and kind is live.                              *)
C6_RoutedToOwnTransport ==
    [][RanSessionRequest
       => \A t \in Named :
              Live(t) => last'.outcome = "forwarded" /\ Target = t]_vars

C6_Witness ==
    /\ last.op \in SessionRequests
    /\ last.outcome = "forwarded"
    /\ \E t \in Transports :
           /\ t # last.transport
           /\ transports[t].class = transports[last.transport].class
           /\ transports[t].apiKey = last.apiKey
           /\ Live(t) /\ Live(last.transport)

(* C7: a session identifier registered under one tenant is never resolved by *)
(* a request made under another tenant key: no request is forwarded to a     *)
(* transport that was created under a tenant key other than its own.         *)
C7_TenantIsolation ==
    [][(RanSessionRequest /\ last'.outcome = "forwarded")
       => transports[Target].apiKey = last'.apiKey]_vars

(* C8: GET and DELETE on the session endpoint and POST on the stream-message *)
(* endpoint never create a session: they add nothing to any registry map.    *)
C8_SessionOnlyEndpointsCreateNothing ==
    [][(Ran /\ last'.op \in SessionOnly)
       => /\ registry' = registry
          /\ Len(transports') = Len(transports)
          /\ Len(servers') = Len(servers)]_vars

C8_Witness ==
    /\ last.op \in SessionOnly
    /\ last.outcome = "rejected"
    /\ last.apiKey \in DOMAIN mcpTransports
    /\ last.sessionId # ""
    /\ \E t \in Transports : Registered(t) /\ transports[t].apiKey = last.apiKey

(* C9: a rejected request leaves the four registry maps as they were.        *)
C9_RejectionLeavesRegistryUnchanged ==
    [][(Ran /\ last'.outcome = "rejected")
       => /\ mcpTransports' = mcpTransports
          /\ mcpServers' = mcpServers
          /\ sseTransports' = sseTransports
          /\ sseServers' = sseServers
          /\ objectPrototype' = objectPrototype]_vars

C9_Witness ==
    /\ last.op = POST_MCP
    /\ last.outcome = "rejected"
    /\ last.sessionId = "" /\ ~last.isInit
    /\ last.apiKey \in Tenants
    /\ last.apiKey \notin DOMAIN mcpServers

(* C10: a push-stream session is never visible to lookups while no handler   *)
(* is connected to its transport.                                            *)
C10_VisibleStreamHasHandler ==
    \A t \in Transports :
        (transports[t].class = SSE /\ Registered(t)) => transports[t].server # 0

(* C11: every routing rejection, on every endpoint (missing tenant key,      *)
(* missing or unknown session identifier, inadmissible POST), is answered    *)
(* with status 400 and the structured error envelope (protocol version       *)
(* marker, error object with numeric code and message, null id).             *)
C11_RejectionsUseErrorEnvelope ==
    [][(Ran /\ last'.outcome = "rejected")
       => /\ last'.reply.status = 400
          /\ last'.reply.format = "jsonrpc-error"]_vars

(* C12: in every reachable state a session identifier is present in a        *)
(* transport map if and only if its transport can currently accept requests  *)
(* (it has its identifier and its close signal has not fired); in particular *)
(* no entry refers to a transport whose close signal has fired, also when    *)
(* the signal fires during admission, before onsessioninitialized.           *)
C12_RegisteredIffLive ==
    \A t \in Transports : Registered(t) <=> Live(t)

(* C13: each handler is bound to exactly one transport for the session's     *)
(* lifetime: in every reachable state no handler instance has been connected *)
(* to the transports of two different sessions, for both kinds, also when    *)
(* one tenant opens several push-stream sessions.                            *)
C13_HandlerBoundToOneTransport ==
    \A t1, t2 \in Transports :
        (transports[t1].server # 0 /\ transports[t1].server = transports[t2].server)
            => t1 = t2

(* C14: admission never writes to an occupied registry slot: the handler     *)
(* slot written at line 113, the transport slot written by                   *)
(* onsessioninitialized and the push-stream slot written at line 161 hold no *)
(* entry at the moment of the write, under any interleaving of admissions.   *)
C14_AdmissionWritesFreeSlots ==
    [][Ran =>
        LET apiKey == last'.apiKey
            sid == transports'[Target].sessionId
        IN  /\ (last'.op = POST_MCP /\ last'.outcome = "admitted")
                   => Stored(mcpServers, objectPrototype, apiKey, SessionKey(sid))
                          = Undefined
            /\ last'.op = "POST /:apiKey/mcp resumed"
                   => Stored(mcpTransports, objectPrototype, apiKey, sid) = Undefined
            /\ (last'.op = GET_SSE /\ last'.outcome # "rejected")
                   => Stored(sseTransports, objectPrototype, apiKey, sid)
                          = Undefined]_vars

(* C15: the placeholder is replaced once the real identifier is known: when  *)
(* onsessioninitialized has run, the session's handler is registered under   *)
(* the real session identifier and is no longer stored under 'pending'.      *)
C15_PlaceholderReplaced ==
    [][(Ran /\ last'.op = "POST /:apiKey/mcp resumed")
       => LET apiKey == transports'[Target].apiKey
              handler == Ref(SERVER, transports'[Target].server)
          IN  /\ Stored(mcpServers', objectPrototype', apiKey,
                        transports'[Target].sessionId) = handler
              /\ Stored(mcpServers', objectPrototype', apiKey, PENDING)
                     # handler]_vars

\* the entry outer[apiKey][key] exists before the step and is absent after it
Removed(outer, outerAfter, apiKey, key) ==
    /\ Stored(outer, objectPrototype, apiKey, key) # Undefined
    /\ Stored(outerAfter, objectPrototype', apiKey, key) = Undefined

\* the step that just ran is the close callback of the session
\* (apiKey, sessionId) of the given kind
ClosingOwn(class, apiKey, sessionId) ==
    /\ Ran
    /\ last'.op \in {"onclose", "res.on close"}
    /\ Target \in SessionOf(class, apiKey, sessionId)

(* C16: there is exactly one removal path: an entry of a transport map or of *)
(* the handler map disappears only in the step that runs the close callback  *)
(* of the session it is keyed by; no request handler, admission or           *)
(* onsessioninitialized removes or discards an existing entry.  Stated for   *)
(* the ordinary tenant keys.                                                 *)
C16_OnlyOwnCloseRemoves ==
    [][\A apiKey \in Tenants, key \in SessionIds \ {""} :
        /\ Removed(mcpTransports, mcpTransports', apiKey, key)
               => ClosingOwn(STREAMABLE, apiKey, key)
        /\ Removed(mcpServers, mcpServers', apiKey, key)
               => ClosingOwn(STREAMABLE, apiKey, key)
        /\ Removed(sseTransports, sseTransports', apiKey, key)
               => ClosingOwn(SSE, apiKey, key)]_vars

\* a lookup for the session of transport t, as the router performs it for
\* t's kind, returns t
Visible(t) ==
    LET tr == transports[t]
    IN  /\ tr.sessionId # ""
        /\ IF tr.class = STREAMABLE
           THEN McpLookup(tr.apiKey, tr.sessionId) = Ref(STREAMABLE, t)
           ELSE SseLookup(tr.apiKey, tr.sessionId) = Ref(SSE, t)

(* C17: once a session's entry is inserted it stays visible to every later   *)
(* lookup for its (tenant, session identifier, kind) until that session's    *)
(* own close callback runs: no other step (admission, initialization or      *)
(* close of another session, any request) makes the lookup return absent.    *)
C17_VisibleUntilOwnClose ==
    [][\A t \in Transports :
        (Visible(t) /\ ~(last'.op \in {"onclose", "res.on close"} /\ Target = t))
            => Visible(t)']_vars

C17_Witness ==
    /\ last.op \in {"POST /:apiKey/mcp resumed", "onclose"}
    /\ \E t \in Transports :
           /\ t # last.transport
           /\ transports[t].class = STREAMABLE
           /\ transports[t].apiKey = last.apiKey
           /\ Visible(t)

\* what the lookup of the handler of the request that just ran returned
Found ==
    IF last'.op = POST_MESSAGES
    THEN SseLookup(last'.apiKey, last'.sessionId)
    ELSE McpLookup(last'.apiKey, last'.sessionId)

Keys(outer, apiKey) ==
    IF apiKey \in DOMAIN outer THEN DOMAIN outer[apiKey] ELSE {}

(* C19: closed sessions leave nothing behind but empty per-tenant            *)
(* containers: when the close callback of every session ever admitted for a  *)
(* tenant has run and no admission of the tenant is in progress, the         *)
(* tenant's streamable transport map, handler map and push-stream transport  *)
(* map contain no keys.                                                      *)
C19_ClosedSessionsLeaveNothing ==
    \A apiKey \in Tenants :
        (/\ \A t \in Transports :
                transports[t].apiKey = apiKey
                    => transports[t].reaped /\ t \notin awaiting)
            => /\ Keys(mcpTransports, apiKey) = {}
               /\ Keys(mcpServers, apiKey) = {}
               /\ Keys(sseTransports, apiKey) = {}

(* C20: a close signal only cleans up its own session: the close callback of *)
(* session S of tenant T changes nothing but the entries keyed by (T, S) of  *)
(* its own transport kind; for every other session of T, every other tenant  *)
(* and the other kind, lookups and handler entries are as before.            *)
C20_CloseOnlyCleansOwnSession ==
    [][(Ran /\ last'.op \in {"onclose", "res.on close"})
       => LET T == transports[Target].apiKey
              S == transports[Target].sessionId
              K == transports[Target].class
          IN  /\ sseServers' = sseServers
              /\ \A apiKey \in ApiKeys \ {""}, key \in SessionIds \ {""} :
                     /\ (apiKey # T \/ key # S \/ K # STREAMABLE)
                            => /\ McpLookup(apiKey, key)' = McpLookup(apiKey, key)
                               /\ Stored(mcpServers', objectPrototype', apiKey, key)
                                      = Stored(mcpServers, objectPrototype, apiKey, key)
                     /\ (apiKey # T \/ key # S \/ K # SSE)
                            => SseLookup(apiKey, key)' = SseLookup(apiKey, key)]_vars

====
